---- MODULE Spec2Model ----
(***************************************************************************)
(* Model of ImageProcessingDB (database.py): the image / user store, the   *)
(* request validator and the public operations of the repository facade.  *)
(*                                                                         *)
(* Python values are modelled as tagged records [t, s, n]: t is the Python *)
(* type, s the text of a str, n the value of an int.  A key that is absent *)
(* from a request dict has t = "missing".  The text of a format is a       *)
(* sequence of characters so that str.lower() is computed, not assumed.    *)
(***************************************************************************)
EXTENDS Integers, Sequences, FiniteSets, TLC

VARIABLES images, users, call, result, procs

vars == <<images, users, call, result, procs>>

----------------------------------------------------------------------------
(* Bounds of the model *)

MaxStored == 2       \* images in the store the handle is connected to
MaxChildren == 3     \* cap on the length of a child_ids list

ImageIds == {"a", "b", "c"}
UserIds == {"u1", "u2"}
Descriptions == {"d1", "d2"}

----------------------------------------------------------------------------
(* Python values *)

Missing == [t |-> "missing", s |-> "", n |-> 0]
PyStr(x) == [t |-> "str", s |-> x, n |-> 0]
PyInt(k) == [t |-> "int", s |-> "", n |-> k]
PyBytes(x) == [t |-> "bytes", s |-> x, n |-> 0]

(* values of the format field carry their text as a sequence of characters *)
FmtStr(cs) == [t |-> "str", s |-> cs, n |-> 0]
FmtInt(k) == [t |-> "int", s |-> <<>>, n |-> k]
FmtMissing == [t |-> "missing", s |-> <<>>, n |-> 0]
(* the type object str itself *)
FmtTypeStr == [t |-> "type", s |-> <<"s","t","r">>, n |-> 0]
(* an instance of a subclass of str whose __ne__ answers False: the one kind
   of text for which `value != str` is false *)
FmtStrLike(cs) == [t |-> "strlike", s |-> cs, n |-> 0]

Has(v) == v.t # "missing"
IsStr(v) == v.t \in {"str", "strlike"}
IsInt(v) == v.t = "int"

(* str.lower(), character by character *)
LowerChar(c) ==
    CASE c = "B" -> "b" [] c = "E" -> "e" [] c = "F" -> "f" [] c = "G" -> "g"
      [] c = "I" -> "i" [] c = "J" -> "j" [] c = "M" -> "m" [] c = "N" -> "n"
      [] c = "P" -> "p" [] c = "T" -> "t"
      [] OTHER -> c

Lower(cs) == [k \in 1..Len(cs) |-> LowerChar(cs[k])]

(* the literal list of line 140-141 *)
ValidFormats ==
    { <<"j","p","g">>, <<"j","p","e","g">>, <<"p","n","g">>,
      <<"t","i","f","f">>, <<"g","i","f">> }

(* Payloads: s names the content.  "QUJD" is canonical base64 text, "@@" is
   text that base64.b64decode rejects. *)
Base64Texts == {"QUJD"}

(* names of dir(object) whose attribute on the Processing class is callable
   (inherited from object unless overridden); "__doc__" is in dir(object)
   and is not callable *)
ObjectCallableNames == {"__init__", "__str__"}

(* capabilities of the external Processor, as the specification describes
   them: public methods of the Processing class *)
ProcessorCapabilities == {"histogram_eq"}

----------------------------------------------------------------------------
(* Results of a call: a returned value or a raised exception *)

None == [tag |-> "none", val |-> <<>>]
Obj(tag, v) == [tag |-> tag, val |-> v]
Bool(b) == [tag |-> "bool", val |-> b]
IsNone(x) == x.tag = "none"

Return(x) == [status |-> "return", exc |-> "", msg |-> "", ret |-> x]
ReturnNone == Return(None)
Raise(e, m) == [status |-> "raise", exc |-> e, msg |-> m, ret |-> None]

Raised(r) == r.status = "raise"

----------------------------------------------------------------------------
(* The validator *)

(* base64.b64encode(base64.b64decode(image_data)) == image_data, any
   exception giving False: decoding accepts str or bytes holding base64 text,
   encoding yields bytes, and bytes never equal a str. *)
_is_base64(image_data) ==
    LET decodes == image_data.t \in {"str", "bytes"} /\ image_data.s \in Base64Texts
        encoded == PyBytes(image_data.s)
    IN  IF ~decodes THEN FALSE ELSE encoded = image_data

valid_process(process) ==
    LET valid_processes == ObjectCallableNames
    IN  IF process.s \notin valid_processes THEN FALSE ELSE TRUE

Ok == ReturnNone

(* _image_parameter_check: the first failing test raises *)
_image_parameter_check(image_info) ==
    IF ~image_info.isdict
        THEN Raise("TypeError", "image_info must be type dict.")
    ELSE IF ~Has(image_info.image_id)
        THEN Raise("AttributeError", "image_info must have image_id.")
    ELSE IF ~IsStr(image_info.image_id)
        THEN Raise("AttributeError", "image_id must be type str.")
    ELSE IF ~Has(image_info.image)
        THEN Raise("AttributeError", "image_info must have image data.")
    ELSE IF ~_is_base64(image_info.image)
        THEN Raise("TypeError", "image must be type base64.")
    ELSE IF ~Has(image_info.height)
        THEN Raise("AttributeError", "image_info must have height.")
    ELSE IF ~Has(image_info.width)
        THEN Raise("AttributeError", "image_info must have width.")
    ELSE IF ~IsInt(image_info.height)
        THEN Raise("TypeError", "height must be type int.")
    ELSE IF ~IsInt(image_info.width)
        THEN Raise("TypeError", "height must be type int.")
    ELSE IF ~Has(image_info.format)
        THEN Raise("AttributeError", "image_info must have format.")
    \* image_info["format"] != str compares the value with the type str
    ELSE IF image_info.format.t \notin {"type", "strlike"}
        THEN Raise("TypeError", "format must be type str")
    \* str.lower() without an argument
    ELSE IF image_info.format.t = "type"
        THEN Raise("TypeError", "descriptor 'lower' of 'str' object needs an argument")
    ELSE IF Lower(image_info.format.s) \notin ValidFormats
        THEN Raise("ValueError", "format invalid.")
    ELSE IF ~Has(image_info.processing_time)
        THEN Raise("AttributeError", "image_info must have processing_time.")
    ELSE IF ~IsInt(image_info.processing_time)
        THEN Raise("TypeError", "processing_time must be type int in milliseconds.")
    ELSE IF ~Has(image_info.process)
        THEN Raise("AttributeError", "image_info must have process.")
    ELSE IF ~IsStr(image_info.process)
        THEN Raise("TypeError", "process must be type str.")
    ELSE IF ~valid_process(image_info.process)
        THEN Raise("ValueError", "process invalid.")
    ELSE Ok

----------------------------------------------------------------------------
(* Requests *)

NoDict ==
    [isdict |-> FALSE, image_id |-> Missing, image |-> Missing,
     height |-> Missing, width |-> Missing, format |-> FmtMissing,
     processing_time |-> Missing, process |-> Missing,
     description |-> Missing, parent_id |-> Missing]

ImageIdValues == {PyStr("a"), Missing, PyInt(7)}
PayloadValues == {PyBytes("QUJD"), PyStr("QUJD"), PyStr("@@"), Missing}
HeightValues == {PyInt(2), Missing, PyStr("2")}
WidthValues == {PyInt(3), Missing, PyStr("3")}
FormatValues ==
    {FmtStr(<<"p","n","g">>), FmtStr(<<"P","N","G">>), FmtStr(<<"J","p","e","g">>),
     FmtStr(<<"b","m","p">>), FmtMissing, FmtInt(1), FmtTypeStr,
     FmtStrLike(<<"P","n","g">>), FmtStrLike(<<"b","m","p">>)}
TimeValues == {PyInt(5), Missing, PyStr("5")}
ProcessValues ==
    {PyStr("histogram_eq"), PyStr("__init__"), PyStr("__doc__"),
     PyStr("bogus"), Missing, PyInt(4)}

(* every combination of the field values above, and a request that is no dict *)
ValidatorRequests ==
    { [isdict |-> TRUE, image_id |-> i, image |-> p, height |-> h, width |-> w,
       format |-> f, processing_time |-> pt, process |-> pr,
       description |-> Missing, parent_id |-> Missing] :
        i \in ImageIdValues, p \in PayloadValues, h \in HeightValues,
        w \in WidthValues, f \in FormatValues, pt \in TimeValues,
        pr \in ProcessValues }
    \cup {NoDict}

(* a request that meets every rule of the validator's contract *)
GoodRequest(i, f, d, par) ==
    [isdict |-> TRUE, image_id |-> PyStr(i), image |-> PyBytes("QUJD"),
     height |-> PyInt(2), width |-> PyInt(3), format |-> f,
     processing_time |-> PyInt(5), process |-> PyStr("histogram_eq"),
     description |-> d, parent_id |-> par]

GoodRequests ==
    { GoodRequest(i, f, d, par) :
        i \in ImageIds,
        f \in {FmtStr(<<"p","n","g">>), FmtStr(<<"P","N","G">>)},
        d \in {Missing, PyStr("d1")},
        par \in {Missing} \cup {PyStr(x) : x \in ImageIds} }

Canonical == GoodRequest("a", FmtStr(<<"p","n","g">>), Missing, Missing)

(* the canonical request with one field replaced *)
OneFieldRequests ==
    {[Canonical EXCEPT !.image_id = v] : v \in ImageIdValues}
    \cup {[Canonical EXCEPT !.image = v] : v \in PayloadValues}
    \cup {[Canonical EXCEPT !.height = v] : v \in HeightValues}
    \cup {[Canonical EXCEPT !.width = v] : v \in WidthValues}
    \cup {[Canonical EXCEPT !.format = v] : v \in FormatValues}
    \cup {[Canonical EXCEPT !.processing_time = v] : v \in TimeValues}
    \cup {[Canonical EXCEPT !.process = v] : v \in ProcessValues}

Requests == GoodRequests \cup OneFieldRequests \cup {NoDict}

----------------------------------------------------------------------------
(* The store: Image and User documents keyed by their primary key *)

EmptyFn == [x \in {} |-> x]

Remove(f, k) == [x \in DOMAIN f \ {k} |-> f[x]]

(* find_image / find_image_child / find_user: scan for the matching id *)
find_image(imgs, image_id) ==
    IF image_id \in DOMAIN imgs THEN Obj("image", imgs[image_id]) ELSE None

find_image_child(imgs, image_id) ==
    IF image_id \in DOMAIN imgs THEN Obj("image", imgs[image_id]) ELSE None

find_user(usrs, user_id) ==
    IF user_id \in DOMAIN usrs THEN Obj("user", usrs[user_id]) ELSE None

(* find_image_parent: no test for a missing image or an empty history *)
find_image_parent(imgs, image_id) ==
    LET image == find_image(imgs, image_id)
    IN  IF IsNone(image)
            THEN Raise("AttributeError",
                       "'NoneType' object has no attribute 'process_history'")
        ELSE IF image.val.process_history = <<>>
            THEN Raise("IndexError", "list index out of range")
        ELSE LET parent_id == image.val.process_history[Len(image.val.process_history)]
             IN  Return(find_image(imgs, parent_id))

(* _add_child that stores the child id as the whole list *)
_add_child_replace(imgs, child_id, parent_id) ==
    LET parent_image == find_image(imgs, parent_id)
    IN  IF ~IsNone(parent_image)
            THEN [imgs EXCEPT ![parent_id].child_ids = <<child_id>>]
            ELSE imgs

(* _add_child that saves the parent as it was read *)
_add_child_skip(imgs, child_id, parent_id) ==
    LET parent_image == find_image(imgs, parent_id)
    IN  IF ~IsNone(parent_image)
            THEN [imgs EXCEPT ![parent_id].child_ids = @]
            ELSE imgs

(* _add_child: append the child id to the parent's list and save the parent *)
_add_child(imgs, child_id, parent_id) ==
    LET parent_image == find_image(imgs, parent_id)
    IN  IF ~IsNone(parent_image)
            THEN [imgs EXCEPT ![parent_id].child_ids = Append(@, child_id)]
            ELSE imgs

NewUser(user_id) == [user_id |-> user_id, uploads |-> EmptyFn]

(* add_user without the test for an existing user: the document is saved
   over the stored one *)
add_user_overwrite(usrs, user_id) ==
    [users |-> (user_id :> NewUser(user_id)) @@ usrs,
     result |-> Return(Obj("user", NewUser(user_id)))]

(* add_user: a model object is truthy, so a found user raises *)
add_user(usrs, user_id) ==
    LET test_user == find_user(usrs, user_id)
    IN  IF ~IsNone(test_user)
            THEN [users |-> usrs, result |-> Raise("ValueError", "User already exists!")]
            ELSE [users |-> (user_id :> NewUser(user_id)) @@ usrs,
                  result |-> Return(Obj("user", NewUser(user_id)))]

(* update_user_uploads: indexes the history before anything else *)
update_user_uploads(usrs, user_id, process_history) ==
    IF process_history = <<>>
        THEN [users |-> usrs, result |-> Raise("IndexError", "list index out of range")]
    ELSE
        LET root_id == process_history[1]
            recent_id == process_history[Len(process_history)]
            found == find_user(usrs, user_id)
            added == add_user(usrs, user_id)
        IN  IF IsNone(found) /\ Raised(added.result)
                THEN added
            ELSE
                LET usrs1 == IF IsNone(found) THEN added.users ELSE usrs
                    user == usrs1[user_id]
                    saved == [user EXCEPT !.uploads = (root_id :> recent_id) @@ @]
                IN  [users |-> [usrs1 EXCEPT ![user_id] = saved],
                     result |-> ReturnNone]

(* update_description assigns the attribute heart_rates, which is no field of
   the Image document, and saves: the stored document is written back as it
   was read *)
update_description(imgs, image_id, description) ==
    LET image_exists == image_id \in DOMAIN imgs
        saved(image) == image
    IN  [images |-> [x \in DOMAIN imgs |->
                        IF x = image_id THEN saved(imgs[x]) ELSE imgs[x]],
         result |-> Return(Bool(image_exists))]

(* remove_image that also takes the id out of every other child list *)
remove_image_cascade(imgs, image_id) ==
    LET removed == image_id \in DOMAIN imgs
        kept == Remove(imgs, image_id)
    IN  [images |-> [x \in DOMAIN kept |->
                        [kept[x] EXCEPT !.child_ids =
                            SelectSeq(@, LAMBDA c : c # image_id)]],
         result |-> Return(Bool(removed))]

(* remove_image: delete the matching document, touch nothing else *)
remove_image(imgs, image_id) ==
    LET removed == image_id \in DOMAIN imgs
    IN  [images |-> Remove(imgs, image_id), result |-> Return(Bool(removed))]

(* the Image document of lines 72-87 *)
new_image(user_id, image_info, process_history) ==
    LET description ==
            IF ~Has(image_info.description)
                THEN "None"
                ELSE image_info.description.s
    IN  [image_id |-> image_info.image_id.s,
         user_id |-> user_id,
         width |-> image_info.width.n,
         height |-> image_info.height.n,
         format |-> image_info.format.s,
         processing_time |-> image_info.processing_time.n,
         process |-> image_info.process.s,
         description |-> description,
         process_history |-> process_history,
         child_ids |-> <<>>]

(* add_image: validate, link to the parent, update the ledger, save *)
add_image(st, user_id, image_info) ==
    LET checked == _image_parameter_check(image_info)
    IN  IF Raised(checked)
            THEN [images |-> st.images, users |-> st.users, result |-> checked]
        ELSE
        LET has_parent == Has(image_info.parent_id)
            parent_id == image_info.parent_id.s
            image_id == image_info.image_id.s
            parent_image == find_image(st.images, parent_id)
        IN  IF has_parent /\ IsNone(parent_image)
                THEN [images |-> st.images, users |-> st.users,
                      result |-> Raise("AttributeError",
                          "'NoneType' object has no attribute 'process_history'")]
            ELSE
            LET process_history ==
                    IF has_parent
                        THEN Append(parent_image.val.process_history, parent_id)
                        ELSE <<>>
                imgs1 == IF has_parent
                            THEN _add_child(st.images, image_id, parent_id)
                            ELSE st.images
                ledger == update_user_uploads(st.users, user_id, process_history)
            IN  IF Raised(ledger.result)
                    THEN [images |-> imgs1, users |-> ledger.users,
                          result |-> ledger.result]
                ELSE
                LET i == new_image(user_id, image_info, process_history)
                IN  [images |-> (image_id :> i) @@ imgs1,
                     users |-> ledger.users,
                     result |-> ReturnNone]

----------------------------------------------------------------------------
(* The documents held by the database the handle connects to.  The database
   outlives the process, so construction finds whatever lineages were saved
   before: every forest over at most MaxStored image ids, each image with
   the history and the child list of its place in the forest, owned by one
   user whose ledger maps each root to a leaf of its lineage. *)

NoParent == "-"

RECURSIVE Rooted(_, _, _)
Rooted(par, i, fuel) ==
    IF par[i] = NoParent THEN TRUE
    ELSE IF fuel = 0 THEN FALSE
    ELSE Rooted(par, par[i], fuel - 1)

Forests ==
    UNION { {par \in [S -> S \cup {NoParent}] :
                \A i \in S : Rooted(par, i, Cardinality(S))} :
            S \in {T \in SUBSET ImageIds : Cardinality(T) <= MaxStored} }

RECURSIVE HistoryOf(_, _)
HistoryOf(par, i) ==
    IF par[i] = NoParent THEN <<>> ELSE Append(HistoryOf(par, par[i]), par[i])

RECURSIVE SetToSeq(_)
SetToSeq(S) ==
    IF S = {} THEN <<>>
    ELSE LET x == CHOOSE y \in S : TRUE IN <<x>> \o SetToSeq(S \ {x})

StoredImage(par, i) ==
    [image_id |-> i, user_id |-> "u1", width |-> 3, height |-> 2,
     format |-> <<"p","n","g">>, processing_time |-> 5,
     process |-> "histogram_eq", description |-> "None",
     process_history |-> HistoryOf(par, i),
     child_ids |-> SetToSeq({c \in DOMAIN par : par[c] = i})]

RootOf(par, i) == IF par[i] = NoParent THEN i ELSE HistoryOf(par, i)[1]

Tails(par) ==
    LET roots == {i \in DOMAIN par : par[i] = NoParent}
    IN  {t \in [roots -> DOMAIN par] :
            \A r \in roots : /\ RootOf(par, t[r]) = r
                             /\ \A c \in DOMAIN par : par[c] # t[r]}

NoCall ==
    [op |-> "init", user_id |-> "", image_id |-> "", request |-> NoDict,
     description |-> ""]

(* the callers of the handle, and what a caller holds between two accesses
   of the database *)
Procs == {1, 2}

Idle ==
    [pc |-> "idle", op |-> "", user_id |-> "", request |-> NoDict,
     image_id |-> "", parent_image |-> None, process_history |-> <<>>,
     user |-> None, result |-> ReturnNone, concurrent |-> FALSE]

Init ==
    /\ procs = [p \in Procs |-> Idle]
    /\ \E par \in Forests :
          /\ images = [i \in DOMAIN par |-> StoredImage(par, i)]
          /\ \E t \in Tails(par) :
                users = IF DOMAIN par = {} THEN EmptyFn
                        ELSE ("u1" :> [user_id |-> "u1", uploads |-> t])
    /\ call = NoCall
    /\ result = ReturnNone

----------------------------------------------------------------------------
(* One action per public operation *)

Store == [images |-> images, users |-> users]

AddImage ==
    \E user_id \in UserIds, image_info \in Requests :
        LET r == add_image(Store, user_id, image_info)
        IN  /\ \A i \in DOMAIN r.images : Len(r.images[i].child_ids) <= MaxChildren
            /\ images' = r.images
            /\ users' = r.users
            /\ call' = [NoCall EXCEPT !.op = "add_image", !.user_id = user_id,
                                      !.request = image_info]
            /\ result' = r.result
            /\ UNCHANGED procs

AddUser ==
    \E user_id \in UserIds :
        LET r == add_user(users, user_id)
        IN  /\ users' = r.users
            /\ call' = [NoCall EXCEPT !.op = "add_user", !.user_id = user_id]
            /\ result' = r.result
            /\ UNCHANGED <<images, procs>>

UpdateDescription ==
    \E image_id \in ImageIds, description \in Descriptions :
        LET r == update_description(images, image_id, description)
        IN  /\ images' = r.images
            /\ call' = [NoCall EXCEPT !.op = "update_description",
                                      !.image_id = image_id,
                                      !.description = description]
            /\ result' = r.result
            /\ UNCHANGED <<users, procs>>

RemoveImage ==
    \E image_id \in ImageIds :
        LET r == remove_image(images, image_id)
        IN  /\ images' = r.images
            /\ call' = [NoCall EXCEPT !.op = "remove_image", !.image_id = image_id]
            /\ result' = r.result
            /\ UNCHANGED <<users, procs>>

FindImage ==
    \E image_id \in ImageIds :
        /\ call' = [NoCall EXCEPT !.op = "find_image", !.image_id = image_id]
        /\ result' = Return(find_image(images, image_id))
        /\ UNCHANGED <<images, users, procs>>

FindImageChild ==
    \E image_id \in ImageIds :
        /\ call' = [NoCall EXCEPT !.op = "find_image_child", !.image_id = image_id]
        /\ result' = Return(find_image_child(images, image_id))
        /\ UNCHANGED <<images, users, procs>>

FindImageParent ==
    \E image_id \in ImageIds :
        /\ call' = [NoCall EXCEPT !.op = "find_image_parent", !.image_id = image_id]
        /\ result' = find_image_parent(images, image_id)
        /\ UNCHANGED <<images, users, procs>>

FindUser ==
    \E user_id \in UserIds :
        /\ call' = [NoCall EXCEPT !.op = "find_user", !.user_id = user_id]
        /\ result' = Return(find_user(users, user_id))
        /\ UNCHANGED <<images, users, procs>>

Next ==
    \/ AddImage
    \/ AddUser
    \/ UpdateDescription
    \/ RemoveImage
    \/ FindImage
    \/ FindImageChild
    \/ FindImageParent
    \/ FindUser

Spec == Init /\ [][Next]_vars

----------------------------------------------------------------------------
(* The validator on its own: a request is drawn from ValidatorRequests and
   _image_parameter_check is applied to it *)

InitValidator ==
    /\ procs = [p \in Procs |-> Idle]
    /\ images = EmptyFn
    /\ users = EmptyFn
    /\ \E image_info \in ValidatorRequests :
          call = [NoCall EXCEPT !.op = "request", !.request = image_info]
    /\ result = ReturnNone

ParameterCheck ==
    /\ call.op = "request"
    /\ call' = [call EXCEPT !.op = "_image_parameter_check"]
    /\ result' = _image_parameter_check(call.request)
    /\ UNCHANGED <<images, users, procs>>

NextValidator == ParameterCheck

SpecValidator == InitValidator /\ [][NextValidator]_vars

----------------------------------------------------------------------------
(* Callers that share the database.  Each caller makes one call; add_image
   advances one access of the database at a time (a scan by find_image or
   find_user, a save), so that the calls of two callers interleave between
   accesses.  What a caller read stays in its own record until it saves. *)

(* a request the validator lets through: the format is an instance of a str
   subclass (see FmtStrLike) and the process a callable name of dir(object) *)
PassingRequest(i, par) ==
    [isdict |-> TRUE, image_id |-> PyStr(i), image |-> PyBytes("QUJD"),
     height |-> PyInt(2), width |-> PyInt(3),
     format |-> FmtStrLike(<<"P","n","g">>),
     processing_time |-> PyInt(5), process |-> PyStr("__init__"),
     description |-> Missing, parent_id |-> par]

StepRequests ==
    { PassingRequest(i, par) :
        i \in ImageIds, par \in {Missing} \cup {PyStr(x) : x \in ImageIds} }
    \cup {Canonical}

Finish(p, r) ==
    procs' = [procs EXCEPT ![p].pc = "done", ![p].result = r]

InFlight(q) == procs[q].pc \notin {"idle", "done"}

Started(p, op) ==
    [Idle EXCEPT !.op = op,
                 !.concurrent = \E q \in Procs \ {p} : InFlight(q)]

(* lines 54-69 up to the first access of the database: the validator, and
   for a request without parent the empty history handed to
   update_user_uploads, which indexes it at line 189 *)
CallAddImage(p) ==
    /\ procs[p].pc = "idle"
    /\ \E user_id \in UserIds, image_info \in StepRequests :
          LET me == [Started(p, "add_image") EXCEPT !.user_id = user_id,
                                                     !.request = image_info]
              checked == _image_parameter_check(image_info)
              ledger == update_user_uploads(users, user_id, <<>>)
          IN  procs' = [procs EXCEPT ![p] =
                  IF Raised(checked)
                      THEN [me EXCEPT !.pc = "done", !.result = checked]
                  ELSE IF ~Has(image_info.parent_id)
                      THEN [me EXCEPT !.pc = "done", !.result = ledger.result]
                  ELSE [me EXCEPT !.pc = "find_parent"]]
    /\ UNCHANGED <<images, users, call, result>>

(* lines 60-62 *)
FindParent(p) ==
    /\ procs[p].pc = "find_parent"
    /\ LET parent_id == procs[p].request.parent_id.s
           parent_image == find_image(images, parent_id)
       IN  IF IsNone(parent_image)
              THEN Finish(p, Raise("AttributeError",
                        "'NoneType' object has no attribute 'process_history'"))
              ELSE procs' = [procs EXCEPT
                      ![p].pc = "add_child_find",
                      ![p].process_history =
                          Append(parent_image.val.process_history, parent_id)]
    /\ UNCHANGED <<images, users, call, result>>

(* line 100-101 *)
AddChildFind(p) ==
    /\ procs[p].pc = "add_child_find"
    /\ LET parent_image == find_image(images, procs[p].request.parent_id.s)
       IN  procs' = [procs EXCEPT
              ![p].parent_image = parent_image,
              ![p].pc = IF IsNone(parent_image) THEN "ledger_find"
                        ELSE "add_child_save"]
    /\ UNCHANGED <<images, users, call, result>>

(* lines 102-103: the document that was read is saved with the child added *)
AddChildSave(p) ==
    /\ procs[p].pc = "add_child_save"
    /\ LET parent_id == procs[p].request.parent_id.s
           read == (parent_id :> procs[p].parent_image.val)
           saved == _add_child(read, procs[p].request.image_id.s, parent_id)
       IN  /\ Len(saved[parent_id].child_ids) <= MaxChildren
           /\ images' = (parent_id :> saved[parent_id]) @@ images
    /\ procs' = [procs EXCEPT ![p].pc = "ledger_find"]
    /\ UNCHANGED <<users, call, result>>

(* line 191-192 *)
LedgerFindUser(p) ==
    /\ procs[p].pc = "ledger_find"
    /\ LET user == find_user(users, procs[p].user_id)
       IN  procs' = [procs EXCEPT
              ![p].user = user,
              ![p].pc = IF IsNone(user) THEN "add_user_find" ELSE "ledger_save"]
    /\ UNCHANGED <<images, users, call, result>>

(* lines 174-176, reached from line 193 *)
AddUserFind(p) ==
    /\ procs[p].pc = "add_user_find"
    /\ LET r == add_user(users, procs[p].user_id)
       IN  IF Raised(r.result)
              THEN Finish(p, r.result)
              ELSE procs' = [procs EXCEPT ![p].pc = "add_user_save"]
    /\ UNCHANGED <<images, users, call, result>>

(* lines 178-180 *)
AddUserSave(p) ==
    /\ procs[p].pc = "add_user_save"
    /\ LET user_id == procs[p].user_id
           r == add_user(EmptyFn, user_id)
       IN  /\ users' = (user_id :> r.users[user_id]) @@ users
           /\ procs' = [procs EXCEPT ![p].user = r.result.ret,
                                     ![p].pc = "ledger_save"]
    /\ UNCHANGED <<images, call, result>>

(* lines 194-195: the user document that was read is saved with the entry *)
LedgerSave(p) ==
    /\ procs[p].pc = "ledger_save"
    /\ LET user_id == procs[p].user_id
           read == (user_id :> procs[p].user.val)
           r == update_user_uploads(read, user_id, procs[p].process_history)
       IN  users' = (user_id :> r.users[user_id]) @@ users
    /\ procs' = [procs EXCEPT ![p].pc = "image_save"]
    /\ UNCHANGED <<images, call, result>>

(* lines 71-88 *)
ImageSave(p) ==
    /\ procs[p].pc = "image_save"
    /\ LET i == new_image(procs[p].user_id, procs[p].request,
                          procs[p].process_history)
       IN  images' = (i.image_id :> i) @@ images
    /\ Finish(p, ReturnNone)
    /\ UNCHANGED <<users, call, result>>

(* remove_image: the delete of the matching document is one access *)
CallRemoveImage(p) ==
    /\ procs[p].pc = "idle"
    /\ \E image_id \in ImageIds :
          LET r == remove_image(images, image_id)
          IN  /\ images' = r.images
              /\ procs' = [procs EXCEPT ![p] =
                      [Started(p, "remove_image") EXCEPT
                          !.image_id = image_id, !.pc = "done",
                          !.result = r.result]]
    /\ UNCHANGED <<users, call, result>>

NextSteps ==
    \E p \in Procs :
        \/ CallAddImage(p)
        \/ FindParent(p)
        \/ AddChildFind(p)
        \/ AddChildSave(p)
        \/ LedgerFindUser(p)
        \/ AddUserFind(p)
        \/ AddUserSave(p)
        \/ LedgerSave(p)
        \/ ImageSave(p)
        \/ CallRemoveImage(p)

SpecSteps == Init /\ [][NextSteps]_vars

----------------------------------------------------------------------------
(* Vocabulary of the specification, used to state the properties *)

(* a request that passes every rule of section 4.1 *)
OtherwiseValid(req) ==
    /\ req.isdict
    /\ IsStr(req.image_id)
    /\ req.image.t \in {"str", "bytes"} /\ req.image.s \in Base64Texts
    /\ IsInt(req.height) /\ IsInt(req.width)
    /\ IsInt(req.processing_time) /\ req.processing_time.n >= 0
    /\ IsStr(req.process) /\ req.process.s \in ProcessorCapabilities

ValidRequest(req) ==
    /\ OtherwiseValid(req)
    /\ req.format.t = "str" /\ Lower(req.format.s) \in ValidFormats

(* the error kind of section 7 a caller reads off an outcome: the exception
   class, and the message where one class carries several kinds; a returned
   None is the absence that stands for NotFound *)
Kind(r) ==
    IF r.status = "return"
        THEN (IF IsNone(r.ret) THEN "NotFound" ELSE "Value")
    ELSE IF r.exc = "TypeError"
        THEN (IF r.msg = "image_info must be type dict."
                THEN "InvalidRequestShape" ELSE "WrongType")
    ELSE IF r.exc = "AttributeError"
        THEN (IF r.msg = "'NoneType' object has no attribute 'process_history'"
                THEN "Fault" ELSE "MissingField")
    ELSE IF r.exc = "ValueError"
        THEN (IF r.msg = "format invalid." THEN "InvalidEnum"
              ELSE IF r.msg = "process invalid." THEN "UnknownProcess"
              ELSE IF r.msg = "User already exists!" THEN "DuplicateUser"
              ELSE "Fault")
    ELSE "Fault"

(* the kind section 4.1 assigns to the first rule a request breaks, "none"
   when it breaks none *)
DefectKind(req) ==
    IF ~req.isdict THEN "InvalidRequestShape"
    ELSE IF ~Has(req.image_id) THEN "MissingField"
    ELSE IF ~IsStr(req.image_id) THEN "WrongType"
    ELSE IF ~Has(req.image) THEN "MissingField"
    ELSE IF ~(req.image.t \in {"str", "bytes"} /\ req.image.s \in Base64Texts)
        THEN "WrongType"
    ELSE IF ~Has(req.height) \/ ~Has(req.width) THEN "MissingField"
    ELSE IF ~IsInt(req.height) \/ ~IsInt(req.width) THEN "WrongType"
    ELSE IF ~Has(req.format) THEN "MissingField"
    ELSE IF ~IsStr(req.format) THEN "WrongType"
    ELSE IF Lower(req.format.s) \notin ValidFormats THEN "InvalidEnum"
    ELSE IF ~Has(req.processing_time) THEN "MissingField"
    ELSE IF ~IsInt(req.processing_time) THEN "WrongType"
    ELSE IF ~Has(req.process) THEN "MissingField"
    ELSE IF ~IsStr(req.process) THEN "WrongType"
    ELSE IF req.process.s \notin ProcessorCapabilities THEN "UnknownProcess"
    ELSE "none"

Elems(sq) == {sq[k] : k \in 1..Len(sq)}

----------------------------------------------------------------------------
(* Properties *)

(* C1: add_image with a valid request that has no parent_id returns
   normally, stores the image with an empty process history and leaves the
   user's ledger with uploads[image_id] = image_id. *)
C1_RootImageRegistered ==
    (call.op = "add_image" /\ ValidRequest(call.request)
        /\ ~Has(call.request.parent_id))
    => /\ result.status = "return"
       /\ call.request.image_id.s \in DOMAIN images
       /\ images[call.request.image_id.s].process_history = <<>>
       /\ call.user_id \in DOMAIN users
       /\ call.request.image_id.s \in DOMAIN users[call.user_id].uploads
       /\ users[call.user_id].uploads[call.request.image_id.s]
            = call.request.image_id.s

(* C2: add_image with a valid request whose parent_id names a stored image P
   stores the new image with history = P's history before the call followed
   by P's id, and P's stored child ids then contain the new id. *)
C2_ChildLinkedToParent ==
    [][ (call'.op = "add_image" /\ ValidRequest(call'.request)
            /\ Has(call'.request.parent_id)
            /\ call'.request.parent_id.s \in DOMAIN images)
        => LET id == call'.request.image_id.s
               P == call'.request.parent_id.s
           IN  /\ id \in DOMAIN images'
               /\ images'[id].process_history
                    = Append(images[P].process_history, P)
               /\ P \in DOMAIN images'
               /\ id \in Elems(images'[P].child_ids) ]_vars

(* C3: after every add_image by which a user extends a lineage of their
   ledger with a new image, the ledger entry for the root of that lineage is
   the id of the image just added, overwriting the previous tail (A, then B
   under A, then C under B gives uploads[A] = C). *)
C3_LedgerHoldsLatestTail ==
    [][ (call'.op = "add_image" /\ ValidRequest(call'.request)
            /\ Has(call'.request.parent_id)
            /\ call'.request.parent_id.s \in DOMAIN images)
        => LET id == call'.request.image_id.s
               P == call'.request.parent_id.s
               root == Append(images[P].process_history, P)[1]
               u == call'.user_id
           IN  (id \notin DOMAIN images /\ u \in DOMAIN users
                    /\ root \in DOMAIN users[u].uploads)
               => /\ u \in DOMAIN users'
                  /\ root \in DOMAIN users'[u].uploads
                  /\ users'[u].uploads[root] = id ]_vars

(* C4: add_image with a request that misses a required field or has a
   wrongly typed field, an unrecognised format or an unrecognised process
   fails with the kind of that defect and leaves images and users unchanged. *)
C4_DefectRejectedWithItsKind ==
    [][ (call'.op = "add_image" /\ call'.request.isdict
            /\ DefectKind(call'.request) # "none")
        => /\ result'.status = "raise"
           /\ Kind(result') = DefectKind(call'.request)
           /\ images' = images
           /\ users' = users ]_vars

(* C5: the validator accepts an otherwise valid request whose format is any
   upper/lower-case spelling of jpg, jpeg, png, tiff or gif, and rejects any
   other string format with InvalidEnum. *)
C5_FormatCaseInsensitive ==
    (call.op = "_image_parameter_check" /\ OtherwiseValid(call.request)
        /\ IsStr(call.request.format))
    => IF Lower(call.request.format.s) \in ValidFormats
          THEN result.status = "return"
          ELSE result.status = "raise" /\ Kind(result) = "InvalidEnum"

(* C6: find_image(id) right after add_image of a valid request with that id
   returns a record whose image_id, user_id, width, height, format,
   processing_time, process and process history are those of the request and
   the computed history, with the supplied description or "None". *)
C6_AddThenFindRoundTrip ==
    [][ (call'.op = "add_image" /\ ValidRequest(call'.request)
            /\ (Has(call'.request.parent_id)
                    => call'.request.parent_id.s \in DOMAIN images))
        => LET req == call'.request
               found == find_image(images', req.image_id.s)
               history == IF ~Has(req.parent_id) THEN <<>>
                          ELSE Append(images[req.parent_id.s].process_history,
                                      req.parent_id.s)
           IN  /\ found.tag = "image"
               /\ found.val.image_id = req.image_id.s
               /\ found.val.user_id = call'.user_id
               /\ found.val.width = req.width.n
               /\ found.val.height = req.height.n
               /\ found.val.format = req.format.s
               /\ found.val.processing_time = req.processing_time.n
               /\ found.val.process = req.process.s
               /\ found.val.process_history = history
               /\ found.val.description
                    = (IF Has(req.description) THEN req.description.s
                       ELSE "None") ]_vars

(* C7: find_image_parent on a stored image with an empty process history
   reports NotFound (absence); it does not end in another fault. *)
C7_ParentOfRootIsNotFound ==
    (call.op = "find_image_parent" /\ call.image_id \in DOMAIN images
        /\ images[call.image_id].process_history = <<>>)
    => Kind(result) = "NotFound"

(* C8: add_image with a valid request whose parent_id names no stored image
   reports NotFound and writes no image, no child link and no ledger entry. *)
C8_MissingParentIsNotFound ==
    [][ (call'.op = "add_image" /\ ValidRequest(call'.request)
            /\ Has(call'.request.parent_id)
            /\ call'.request.parent_id.s \notin DOMAIN images)
        => /\ Kind(result') = "NotFound"
           /\ images' = images
           /\ users' = users ]_vars

(* C9: add_user(u) fails with DuplicateUser and changes nothing when a user u
   is stored; otherwise it adds a user u with an empty uploads mapping,
   returns it and changes nothing else. *)
C9_AddUserOnce ==
    [][ call'.op = "add_user"
        => LET u == call'.user_id
           IN  IF u \in DOMAIN users
                  THEN /\ result'.status = "raise"
                       /\ Kind(result') = "DuplicateUser"
                       /\ users' = users
                       /\ images' = images
                  ELSE /\ DOMAIN users' = DOMAIN users \cup {u}
                       /\ users'[u] = [user_id |-> u, uploads |-> EmptyFn]
                       /\ \A v \in DOMAIN users : users'[v] = users[v]
                       /\ result' = Return(Obj("user", users'[u]))
                       /\ images' = images ]_vars

(* a second add_user of a user that add_user created has failed *)
C9_Witness ==
    /\ call.op = "add_user"
    /\ Kind(result) = "DuplicateUser"
    /\ call.user_id \in DOMAIN users
    /\ users[call.user_id].uploads = EmptyFn

(* C10: update_description(image_id, text) on a stored image sets its stored
   description to text, changes no other attribute of any image and returns
   true; with no such image it returns false and changes nothing. *)
C10_DescriptionUpdated ==
    [][ call'.op = "update_description"
        => LET id == call'.image_id
           IN  IF id \in DOMAIN images
                  THEN /\ images' = [images EXCEPT
                                        ![id].description = call'.description]
                       /\ result' = Return(Bool(TRUE))
                       /\ users' = users
                  ELSE /\ result' = Return(Bool(FALSE))
                       /\ images' = images
                       /\ users' = users ]_vars

(* C11: remove_image(image_id) deletes exactly the image with that id; every
   other image (child ids and history included, also where they name the
   removed id) and every user's uploads are as before the call. *)
C11_RemoveImageFrame ==
    [][ call'.op = "remove_image"
        => LET id == call'.image_id
           IN  /\ DOMAIN images' = DOMAIN images \ {id}
               /\ \A x \in DOMAIN images' : images'[x] = images[x]
               /\ users' = users
               /\ result' = Return(Bool(id \in DOMAIN images)) ]_vars

(* an image was removed and another stored image still names it *)
C11_Witness ==
    /\ call.op = "remove_image"
    /\ result = Return(Bool(TRUE))
    /\ \E x \in DOMAIN images :
          /\ call.image_id \in Elems(images[x].child_ids)
                                \cup Elems(images[x].process_history)
    /\ \E u \in DOMAIN users, r \in ImageIds :
          /\ r \in DOMAIN users[u].uploads
          /\ call.image_id \in {r, users[u].uploads[r]}

(* the place of a rule in the order of section 4.1; 0 when no rule is broken *)
DefectStage(req) ==
    IF ~req.isdict THEN 1
    ELSE IF ~Has(req.image_id) \/ ~IsStr(req.image_id) THEN 2
    ELSE IF ~Has(req.image)
            \/ ~(req.image.t \in {"str", "bytes"} /\ req.image.s \in Base64Texts)
        THEN 3
    ELSE IF ~Has(req.height) \/ ~Has(req.width)
            \/ ~IsInt(req.height) \/ ~IsInt(req.width) THEN 4
    ELSE IF ~Has(req.format) \/ ~IsStr(req.format) THEN 5
    ELSE IF Lower(req.format.s) \notin ValidFormats THEN 5
    ELSE IF ~Has(req.processing_time) \/ ~IsInt(req.processing_time) THEN 6
    ELSE IF ~Has(req.process) \/ ~IsStr(req.process) THEN 7
    ELSE IF req.process.s \notin ProcessorCapabilities THEN 7
    ELSE 0

(* the rule an error message speaks of *)
ReportedStage(r) ==
    IF r.msg = "image_info must be type dict." THEN 1
    ELSE IF r.msg \in {"image_info must have image_id.",
                       "image_id must be type str."} THEN 2
    ELSE IF r.msg \in {"image_info must have image data.",
                       "image must be type base64."} THEN 3
    ELSE IF r.msg \in {"image_info must have height.",
                       "image_info must have width.",
                       "height must be type int."} THEN 4
    ELSE IF r.msg \in {"image_info must have format.",
                       "format must be type str",
                       "descriptor 'lower' of 'str' object needs an argument",
                       "format invalid."} THEN 5
    ELSE IF r.msg \in {"image_info must have processing_time.",
                       "processing_time must be type int in milliseconds."} THEN 6
    ELSE IF r.msg \in {"image_info must have process.",
                       "process must be type str.",
                       "process invalid."} THEN 7
    ELSE 0

(* C12: the validator reports the first failure in the order request shape,
   image_id, image payload, height/width, format, processing_time, process:
   the error of a request with one or several defects is that of the
   earliest rule the request breaks. *)
C12_FirstFailureWins ==
    (call.op = "_image_parameter_check" /\ DefectStage(call.request) # 0)
    => /\ result.status = "raise"
       /\ ReportedStage(result) = DefectStage(call.request)

(* C13: two failures of different kinds are never reported alike: a rejected
   request and any request with a defect of another kind differ in the
   exception class or the message the caller receives. *)
C13_KindsDistinguishable ==
    (call.op = "_image_parameter_check" /\ DefectKind(call.request) # "none")
    => \A other \in OneFieldRequests \cup {NoDict} :
          (DefectKind(other) \notin {"none", DefectKind(call.request)})
          => LET r == _image_parameter_check(other)
             IN  <<r.status, r.exc, r.msg>>
                    # <<result.status, result.exc, result.msg>>

----------------------------------------------------------------------------
(* Properties of interleaved calls, stated over SpecSteps *)

Last(sq) == sq[Len(sq)]

DuplicateUserRaised(r) ==
    r.status = "raise" /\ r.exc = "ValueError" /\ r.msg = "User already exists!"

(* both callers have completed an add_image under the same parent with two
   new ids *)
BothAddedUnder(P, x, y) ==
    /\ \A p \in Procs : /\ procs[p].pc = "done"
                        /\ procs[p].op = "add_image"
                        /\ procs[p].result = ReturnNone
                        /\ procs[p].request.parent_id = PyStr(P)
    /\ procs[1].request.image_id.s = x
    /\ procs[2].request.image_id.s = y
    /\ x # y /\ x # P /\ y # P

(* C14: two add_image calls under the same stored parent that run one after
   the other leave both new ids in the parent's child ids; when they
   interleave, the append-and-save of one can overwrite that of the other. *)
C14_SequentialKeepsBoth ==
    \A P \in ImageIds, x \in ImageIds, y \in ImageIds :
        (BothAddedUnder(P, x, y) /\ \A p \in Procs : ~procs[p].concurrent)
        => /\ P \in DOMAIN images
           /\ {x, y} \subseteq Elems(images[P].child_ids)

(* the lost update: both calls have returned and the parent lacks one id *)
C14_LostUpdate ==
    \E P \in ImageIds, x \in ImageIds, y \in ImageIds :
        /\ BothAddedUnder(P, x, y)
        /\ \E p \in Procs : procs[p].concurrent
        /\ P \in DOMAIN images
        /\ ~({x, y} \subseteq Elems(images[P].child_ids))

(* C15: the ledger update of add_image provisions a missing user and never
   fails with DuplicateUser, also when two add_image calls for the same new
   user interleave. *)
C15_NeverDuplicateUser ==
    \A p \in Procs :
        (procs[p].pc = "done" /\ procs[p].op = "add_image"
            /\ Has(procs[p].request.parent_id))
        => ~DuplicateUserRaised(procs[p].result)

(* C16: add_image has no rollback.  The save of the parent puts the new id
   into the parent's stored child ids, and a step after it that fails ends
   the call without writing anything: what was written stays. *)
C16_NoRollback ==
    [][ \A p \in Procs :
          /\ (procs[p].pc = "add_child_save" /\ procs'[p].pc = "ledger_find")
             => LET P == procs[p].request.parent_id.s
                IN  /\ P \in DOMAIN images'
                    /\ procs[p].request.image_id.s
                          \in Elems(images'[P].child_ids)
          /\ (procs[p].pc \in {"ledger_find", "add_user_find", "add_user_save",
                               "ledger_save", "image_save"}
                /\ procs'[p].pc = "done" /\ Raised(procs'[p].result))
             => images' = images /\ users' = users ]_vars

(* a call failed after the link: the parent names a child that is not stored *)
C16_Witness ==
    \E p \in Procs :
        /\ procs[p].pc = "done" /\ procs[p].op = "add_image"
        /\ Raised(procs[p].result)
        /\ Has(procs[p].request.parent_id)
        /\ procs[p].request.parent_id.s \in DOMAIN images
        /\ procs[p].request.image_id.s
              \in Elems(images[procs[p].request.parent_id.s].child_ids)
        /\ procs[p].request.image_id.s \notin DOMAIN images

(* C17: every value add_image writes into a user's uploads is, at the moment
   of the write, the id of a stored image. *)
C17_LedgerValueStored ==
    [][ \A p \in Procs :
          (procs[p].pc = "ledger_save" /\ procs'[p].pc = "image_save")
          => LET u == procs[p].user_id
                 root == procs[p].process_history[1]
             IN  /\ users'[u].uploads[root] \in DOMAIN images
                 /\ users'[u].uploads[root] \in DOMAIN images' ]_vars

(* C18: when add_image saves an image with a non-empty history, the last id
   of that history is the id of a stored image at that moment, also when a
   remove_image of the parent interleaves. *)
C18_ParentStoredAtCreation ==
    [][ \A p \in Procs :
          (procs[p].pc = "image_save" /\ procs'[p].pc = "done"
              /\ procs[p].process_history # <<>>)
          => /\ Last(procs[p].process_history) \in DOMAIN images
             /\ Last(procs[p].process_history) \in DOMAIN images' ]_vars

(* C19: add_image with an image_id that is already stored does not replace
   the stored record: history, owner, child ids and the other attributes of
   that record are after the save what they were before it. *)
C19_StoredRecordKept ==
    [][ \A p \in Procs :
          (procs[p].pc = "image_save" /\ procs'[p].pc = "done"
              /\ procs[p].request.image_id.s \in DOMAIN images)
          => images'[procs[p].request.image_id.s]
                = images[procs[p].request.image_id.s] ]_vars

(* C20: the process history of a stored image never contains the image's
   own id. *)
C20_HistoryExcludesSelf ==
    \A i \in DOMAIN images : i \notin Elems(images[i].process_history)

====
